---- MODULE Spec2Model ----
(***************************************************************************)
(* Model of the Jarvis backend: the /chat handler of backend/main.py with  *)
(* its history ring and vector memory, and the providers of                *)
(* backend/services/ai_provider.py.                                        *)
(*                                                                         *)
(* Strings are sequences of tokens.  A token is either one character of    *)
(* user/provider data (" ", "\n", "a", ...) or a whole literal of the      *)
(* source (a header such as "Nouvelle demande :\n"), so concatenation is   *)
(* \o and str.strip() is Strip.                                            *)
(***************************************************************************)
EXTENDS Integers, Sequences, FiniteSets, TLC

(***************************************************************************)
(* Bounds of the exploration.                                              *)
(***************************************************************************)
MaxSlots == 2          \* chat calls in flight at once in a run of SpecRing
MaxChatSlots == 1      \* chat calls in flight at once in a run of Spec
MaxRequests == 2       \* chat calls of a run of Spec
MaxRingRequests == 6   \* chat calls of a run of SpecRing
MaxDeltas == 2         \* text deltas of a backend stream
MaxStreams == 2        \* streaming chat calls of a run of SpecStream

Slots == 1..(IF MaxSlots > MaxChatSlots THEN MaxSlots ELSE MaxChatSlots)

(***************************************************************************)
(* Strings.                                                                *)
(***************************************************************************)
Whitespace == {" ", "\n"}

RECURSIVE LStrip(_)
LStrip(s) ==
    IF s # <<>> /\ Head(s) \in Whitespace THEN LStrip(Tail(s)) ELSE s

RECURSIVE RStrip(_)
RStrip(s) ==
    IF s # <<>> /\ s[Len(s)] \in Whitespace
    THEN RStrip(SubSeq(s, 1, Len(s) - 1))
    ELSE s

Strip(s) == RStrip(LStrip(s))

\* sep.join(parts)
RECURSIVE Join(_, _)
Join(parts, sep) ==
    IF parts = <<>> THEN <<>>
    ELSE IF Len(parts) = 1 THEN parts[1]
    ELSE parts[1] \o sep \o Join(Tail(parts), sep)

\* [f(x) for x in s if keep(x)] for the identity f
RECURSIVE SelectNonEmpty(_)
SelectNonEmpty(s) ==
    IF s = <<>> THEN <<>>
    ELSE IF Head(s) # <<>> THEN <<Head(s)>> \o SelectNonEmpty(Tail(s))
    ELSE SelectNonEmpty(Tail(s))

IndexStr(i) ==
    CASE i = 1 -> "1" [] i = 2 -> "2" [] i = 3 -> "3" [] i = 4 -> "4"
      [] i = 5 -> "5" [] i = 6 -> "6" [] OTHER -> "n"

Concat(parts) == Join(parts, <<>>)

(***************************************************************************)
(* Outcome of a provider call: a text, a ProviderRequestError, or any      *)
(* other exception.                                                        *)
(***************************************************************************)
Ok(t) == [kind |-> "ok", text |-> t, message |-> ""]
RequestError(m) == [kind |-> "request_error", text |-> <<>>, message |-> m]
OtherException(m) == [kind |-> "exception", text |-> <<>>, message |-> m]

\* Outcome of a consumed stream: the chunks yielded, then how the generator ended.
StreamEnd(chunks, kind, message) ==
    [chunks |-> chunks, kind |-> kind, message |-> message]

(***************************************************************************)
(* OpenAIProvider.                                                         *)
(***************************************************************************)
OutputTextItem(t) ==
    [type |-> "message", content |-> <<[type |-> "output_text", text |-> t]>>]

Response(output_text, output) == [output_text |-> output_text, output |-> output]

\* The nested loops shared by generate_response and stream_response: the
\* first non-blank stripped text of an output_text content of a message.
RECURSIVE FirstContentText(_)
FirstContentText(content) ==
    IF content = <<>> THEN <<>>
    ELSE IF Head(content).type = "output_text" /\ Strip(Head(content).text) # <<>>
         THEN Strip(Head(content).text)
         ELSE FirstContentText(Tail(content))

RECURSIVE FirstOutputText(_)
FirstOutputText(output) ==
    IF output = <<>> THEN <<>>
    ELSE IF Head(output).type = "message" /\ FirstContentText(Head(output).content) # <<>>
         THEN FirstContentText(Head(output).content)
         ELSE FirstOutputText(Tail(output))

ResponseText(response) ==
    IF Strip(response.output_text) # <<>>
    THEN Strip(response.output_text)
    ELSE FirstOutputText(response.output)

OpenAIGenerate(b) ==
    IF b.create_raises
    THEN RequestError("Failed to fetch a response from OpenAI")
    ELSE IF ResponseText(b.response) = <<>>
         \* the "Empty response" error is raised inside the try and wrapped
         THEN RequestError("Failed to fetch a response from OpenAI")
         ELSE Ok(ResponseText(b.response))

DeltaEvent(d) == [type |-> "response.output_text.delta", delta |-> d, message |-> ""]
CompletedEvent == [type |-> "response.completed", delta |-> <<>>, message |-> ""]
ErrorEvent(m) == [type |-> "response.error", delta |-> <<>>, message |-> m]

\* The event loop of stream_response: st = [chunks, final_seen, error].
RECURSIVE StreamLoop(_, _)
StreamLoop(events, st) ==
    IF events = <<>> \/ st.error # "none" THEN st
    ELSE LET e == Head(events) IN
         IF e.type = "response.output_text.delta"
         THEN StreamLoop(Tail(events),
                         IF e.delta # <<>>
                         THEN [st EXCEPT !.chunks = Append(@, e.delta)]
                         ELSE st)
         ELSE IF e.type = "response.completed"
         THEN StreamLoop(Tail(events), [st EXCEPT !.final_seen = TRUE])
         ELSE IF e.type = "response.error"
         THEN [st EXCEPT !.error =
                 IF e.message # "" THEN e.message
                 ELSE "Failed to stream a response from OpenAI"]
         ELSE StreamLoop(Tail(events), st)

\* stream_response without its "if not emitted_any: raise".
OpenAIStreamNoEmptyCheck(b) ==
    IF b.stream_raises
    THEN StreamEnd(<<>>, "request_error", "Failed to stream a response from OpenAI")
    ELSE LET st == StreamLoop(b.events,
                              [chunks |-> <<>>, final_seen |-> FALSE, error |-> "none"])
             has_final == st.final_seen \/ b.final_available
             fallback_text == IF has_final THEN ResponseText(b.response) ELSE <<>>
         IN IF st.error # "none"
            THEN StreamEnd(st.chunks, "request_error", st.error)
            ELSE IF ~st.final_seen /\ b.final_raises
            THEN StreamEnd(st.chunks, "request_error",
                           "Failed to stream a response from OpenAI")
            ELSE IF st.chunks # <<>>
            THEN StreamEnd(st.chunks, "ok", "")
            ELSE IF fallback_text # <<>>
            THEN StreamEnd(<<fallback_text>>, "ok", "")
            ELSE StreamEnd(<<>>, "ok", "")

\* stream_response without its "response.error" branch: the stream ends
\* where the backend stopped.
OpenAIStreamIgnoresErrorEvent(b) ==
    IF b.stream_raises
    THEN StreamEnd(<<>>, "request_error", "Failed to stream a response from OpenAI")
    ELSE LET st == StreamLoop(b.events,
                              [chunks |-> <<>>, final_seen |-> FALSE, error |-> "none"])
         IN IF st.chunks # <<>>
            THEN StreamEnd(st.chunks, "ok", "")
            ELSE StreamEnd(<<>>, "request_error", "Empty response received from OpenAI")

OpenAIStream(b) ==
    IF b.stream_raises
    THEN StreamEnd(<<>>, "request_error", "Failed to stream a response from OpenAI")
    ELSE LET st == StreamLoop(b.events,
                              [chunks |-> <<>>, final_seen |-> FALSE, error |-> "none"])
             has_final == st.final_seen \/ b.final_available
             fallback_text == IF has_final THEN ResponseText(b.response) ELSE <<>>
         IN IF st.error # "none"
            THEN StreamEnd(st.chunks, "request_error", st.error)
            ELSE IF ~st.final_seen /\ b.final_raises
            THEN StreamEnd(st.chunks, "request_error",
                           "Failed to stream a response from OpenAI")
            ELSE IF st.chunks # <<>>
            THEN StreamEnd(st.chunks, "ok", "")
            ELSE IF fallback_text # <<>>
            THEN StreamEnd(<<fallback_text>>, "ok", "")
            ELSE StreamEnd(<<>>, "request_error", "Empty response received from OpenAI")

(***************************************************************************)
(* HuggingFaceProvider.                                                    *)
(***************************************************************************)
JNone == [t |-> "none", v |-> <<>>]
JStr(s) == [t |-> "str", v |-> s]
JNum == [t |-> "num", v |-> <<>>]
JDict(generated_text, text) ==
    [t |-> "dict", generated_text |-> generated_text, text |-> text]
JList(items) == [t |-> "list", items |-> items]

\* Python truthiness of a JSON value
Truthy(j) == (j.t = "str" /\ j.v # <<>>) \/ j.t = "num"

HFGenerate(b) ==
    IF b.http_error
    THEN RequestError("Failed to fetch a response from Hugging Face")
    ELSE IF b.body_not_json
    THEN OtherException("JSONDecodeError")
    ELSE LET data == b.data IN
         IF data.t = "list" /\ data.items # <<>> /\ data.items[1].t # "dict"
         THEN OtherException("AttributeError")
         ELSE IF data.t = "list" /\ data.items # <<>>
                 /\ data.items[1].generated_text.t = "str"
         THEN Ok(data.items[1].generated_text.v)
         ELSE IF data.t = "dict"
                 /\ (IF Truthy(data.generated_text)
                     THEN data.generated_text ELSE data.text).t = "str"
         THEN Ok((IF Truthy(data.generated_text)
                  THEN data.generated_text ELSE data.text).v)
         ELSE RequestError("Unexpected response structure from Hugging Face")

HFStream(b) ==
    LET r == HFGenerate(b) IN
    IF r.kind = "ok" THEN StreamEnd(<<r.text>>, "ok", "")
    ELSE StreamEnd(<<>>, r.kind, r.message)

(***************************************************************************)
(* Inputs of the exploration.                                              *)
(***************************************************************************)
\* An upload: its filename ("" when the client sent none), the bytes read
\* (<<>> when empty) and whether upload.read() raises.
Upload(filename, content, read_raises) ==
    [filename |-> filename, content |-> content, read_raises |-> read_raises]

\* What retrieve_relevant does: it raises, or returns a list of documents.
Retrieval(raises, documents) == [raises |-> raises, documents |-> documents]

HFBackend(http_error, body_not_json, data) ==
    [http_error |-> http_error, body_not_json |-> body_not_json, data |-> data]

OpenAIBackend(create_raises, response) ==
    [create_raises |-> create_raises, response |-> response]

\* The inputs the chat calls of a run draw from: user texts, upload lists,
\* memory lookups, whether add_memory raises, the source files the audit
\* manages to read, what the backend of each provider answers; and how many
\* calls the run makes in all and at once.
Inputs(texts, uploads, retrievals, add_raises, files, openai, huggingface, max, slots) ==
    [texts |-> texts, uploads |-> uploads, retrievals |-> retrievals,
     add_raises |-> add_raises, files |-> files,
     openai |-> openai, huggingface |-> huggingface, max |-> max, slots |-> slots]

ChatInputs ==
    Inputs({ <<"a">>, <<" ", "a">>, <<" ">>, <<"Auto-Audit">> },
           { <<>>,
             <<Upload("", <<"x">>, FALSE), Upload("g", <<>>, FALSE),
               Upload("h", <<"x">>, TRUE)>> },
           { Retrieval(TRUE, <<>>), Retrieval(FALSE, << <<"m">>, <<>> >>) },
           BOOLEAN,
           { <<>>, <<"backend/main.py">> },
           { OpenAIBackend(FALSE, Response(<<"r">>, <<OutputTextItem(<<"r">>)>>)),
             OpenAIBackend(FALSE, Response(<<" ">>, <<OutputTextItem(<<" ">>)>>)),
             OpenAIBackend(TRUE, Response(<<>>, <<>>)) },
           { HFBackend(FALSE, FALSE, JList(<<JDict(JStr(<<"r">>), JNone)>>)),
             HFBackend(FALSE, FALSE, JDict(JNone, JStr(<<" ">>))),
             HFBackend(TRUE, FALSE, JNone),
             HFBackend(FALSE, TRUE, JNone) },
           MaxRequests, MaxChatSlots)

RingInputs ==
    Inputs({ <<"a">>, <<"Auto-Audit">> },
           { <<>> },
           { Retrieval(FALSE, <<>>) },
           { FALSE },
           { <<"backend/main.py">> },
           { OpenAIBackend(FALSE, Response(<<"r">>, <<OutputTextItem(<<"r">>)>>)),
             OpenAIBackend(TRUE, Response(<<>>, <<>>)) },
           { HFBackend(FALSE, FALSE, JList(<<JDict(JStr(<<"r">>), JNone)>>)),
             HFBackend(TRUE, FALSE, JNone) },
           MaxRingRequests, MaxSlots)

OverlapInputs == [RingInputs EXCEPT !.add_raises = BOOLEAN, !.max = MaxRequests]

(***************************************************************************)
(* Configuration: backend/config.py and create_provider.                    *)
(***************************************************************************)
\* An optional string of Python: None, or a str.
PyNone == [is_none |-> TRUE, value |-> ""]
PyStr(s) == [is_none |-> FALSE, value |-> s]
PyTruthy(v) == ~v.is_none /\ v.value # ""

\* v or default
PyOr(v, default) == IF PyTruthy(v) THEN v ELSE default

\* Settings: the fields create_provider is given.
Settings(ai_provider, openai_api_key, openai_model, huggingface_api_key, huggingface_model) ==
    [ai_provider |-> ai_provider, openai_api_key |-> openai_api_key,
     openai_model |-> openai_model, huggingface_api_key |-> huggingface_api_key,
     huggingface_model |-> huggingface_model]

\* provider_name.lower(), on the names of the inputs.
LowerName(name) ==
    IF name = "OpenAI" THEN "openai"
    ELSE IF name = "HuggingFace" THEN "huggingface"
    ELSE name

\* f"Unknown AI provider '{provider_name}'", on the names of the inputs.
UnknownProviderMessage(name) ==
    IF name = "invalid" THEN "Unknown AI provider 'invalid'"
    ELSE IF name = "" THEN "Unknown AI provider ''"
    ELSE "Unknown AI provider"

NoProvider == [kind |-> "none", api_key |-> PyNone, model |-> PyNone]

Created(p) == [raised |-> FALSE, message |-> "none", provider |-> p]

ProviderConfigurationError(message) ==
    [raised |-> TRUE, message |-> message, provider |-> NoProvider]

\* An OpenAIProvider whose __post_init__ checks nothing.
OpenAIProviderUnchecked(api_key, model) ==
    Created([kind |-> "openai", api_key |-> api_key, model |-> model])

\* OpenAIProvider(api_key, model) with its __post_init__
OpenAIProvider(api_key, model) ==
    IF ~PyTruthy(api_key)
    THEN ProviderConfigurationError("An OpenAI API key is required")
    ELSE Created([kind |-> "openai", api_key |-> api_key, model |-> model])

\* HuggingFaceProvider(model, api_key) with its __post_init__
HuggingFaceProvider(model, api_key) ==
    IF ~PyTruthy(model)
    THEN ProviderConfigurationError("A Hugging Face model identifier is required")
    ELSE Created([kind |-> "huggingface", api_key |-> api_key, model |-> model])

create_provider(provider_name, kwargs) ==
    IF LowerName(provider_name) = "openai"
    THEN OpenAIProvider(PyOr(kwargs.openai_api_key, PyStr("")),
                        PyOr(kwargs.openai_model, PyStr("gpt-4o-mini")))
    ELSE IF LowerName(provider_name) = "huggingface"
    THEN HuggingFaceProvider(PyOr(kwargs.huggingface_model, PyStr("")),
                             kwargs.huggingface_api_key)
    ELSE ProviderConfigurationError(UnknownProviderMessage(provider_name))

\* _initialise_provider(): what it leaves in _provider and _provider_error.
_initialise_provider(s) == create_provider(s.ai_provider, s)

\* The settings the chat runs start from: each provider configured, with
\* and without the OpenAI key the vector memory needs, and two broken ones.
ChatSettings ==
    { Settings("openai", PyStr("k"), PyStr("gpt-4o-mini"), PyNone, PyStr("gpt2")),
      Settings("huggingface", PyStr("k"), PyStr("gpt-4o-mini"), PyStr("h"), PyStr("gpt2")),
      Settings("openai", PyNone, PyStr("gpt-4o-mini"), PyNone, PyStr("gpt2")),
      Settings("invalid", PyStr("k"), PyStr("gpt-4o-mini"), PyNone, PyStr("gpt2")) }

\* The settings under which a provider exists.
WorkingSettings ==
    { Settings("openai", PyStr("k"), PyStr("gpt-4o-mini"), PyNone, PyStr("gpt2")),
      Settings("huggingface", PyStr("k"), PyStr("gpt-4o-mini"), PyStr("h"), PyStr("gpt2")) }

(***************************************************************************)
(* State of backend/main.py.                                               *)
(***************************************************************************)
VARIABLES
    settings,         \* backend.config.settings
    provider,         \* _provider: "openai", "huggingface" or "none"
    provider_error,   \* _provider_error: "none" or the configuration message
    memory,           \* _memory is not None
    memory_count,     \* number of documents add_memory has stored
    recent_history,   \* _recent_history: sequence of <<question, answer>>
    pc,               \* per request slot: where its chat coroutine stands
    req,              \* per request slot: the locals of its chat call
    ready,            \* completed to_thread futures, in the order the loop resumes them
    started,          \* number of chat calls made so far
    appends,          \* number of _recent_history.append calls made so far
    probe,            \* one backend answer and what each provider method makes of it
    bridge            \* the streaming chat call in progress

vars == <<settings, provider, provider_error, memory, memory_count, recent_history,
          pc, req, ready, started, appends, probe, bridge>>

_RECENT_HISTORY_LIMIT == 5

\* A deque without maxlen: nothing is evicted.
DequeAppendUnbounded(history, entry, limit) == Append(history, entry)

\* A full deque that drops its newest entry instead of its oldest.
DequeAppendDropNewest(history, entry, limit) ==
    IF Len(history) >= limit
    THEN Append(SubSeq(history, 1, Len(history) - 1), entry)
    ELSE Append(history, entry)

\* deque(maxlen=limit).append(entry)
DequeAppend(history, entry, limit) ==
    IF Len(history) >= limit
    THEN Append(SubSeq(history, 2, Len(history)), entry)
    ELSE Append(history, entry)

(***************************************************************************)
(* Helpers of the chat handler.                                            *)
(***************************************************************************)
Triggers ==
    { "auto revue", "autorevue", "auto revue de ton code", "auto revue du code",
      "auto audit", "self review", "self-review", "audit de ton code",
      "audit du code", "analyse ton code", "analyse de ton code",
      "auto-analyse", "auto analyse" }

\* text.lower() and the removal of hyphens, on the one multi-character token
\* of the inputs; every other token is its own normal form.
Lower(token) == IF token = "Auto-Audit" THEN "auto-audit" ELSE token
NoHyphen(token) == IF token = "auto-audit" THEN "auto audit" ELSE token

_is_self_review_request(text) ==
    \E i \in 1..Len(text) :
        Lower(text[i]) \in Triggers \/ NoHyphen(Lower(text[i])) \in Triggers

\* The loop over the uploads: the filenames of the attachments kept.
RECURSIVE ReadUploads(_)
ReadUploads(uploads) ==
    IF uploads = <<>> THEN <<>>
    ELSE LET u == Head(uploads) IN
         IF u.read_raises \/ u.content = <<>>
         THEN ReadUploads(Tail(uploads))
         ELSE <<IF u.filename # "" THEN u.filename ELSE "pièce-jointe">>
              \o ReadUploads(Tail(uploads))

\* ", ".join(attachment.filename ...)
RECURSIVE JoinNames(_)
JoinNames(names) ==
    IF names = <<>> THEN <<>>
    ELSE IF Len(names) = 1 THEN <<names[1]>>
    ELSE <<names[1], ", ">> \o JoinNames(Tail(names))

RelevantMemories(retrieved) ==
    IF retrieved.raises THEN <<>> ELSE SelectNonEmpty(retrieved.documents)

HistoryEntries(history) ==
    [i \in 1..Len(history) |->
        <<"Échange ", IndexStr(i), " :\nUtilisateur : ">> \o history[i][1]
        \o <<"\nJarvis : ">> \o history[i][2]]

HistorySection(history) ==
    <<"Voici les derniers échanges avec l'utilisateur pour te donner du contexte :\n">>
    \o Join(HistoryEntries(history), <<"\n\n">>)

MemoriesSection(memories) ==
    <<"Voici des souvenirs issus de conversations précédentes qui peuvent t'aider :\n">>
    \o Join([i \in 1..Len(memories) |-> <<"- ">> \o memories[i]], <<"\n">>)

AttachmentsSection(names) ==
    <<"L'utilisateur a fourni des fichiers en pièces jointes. Utilise-les dans ta réponse si pertinent :\n">>
    \o Join([i \in 1..Len(names) |-> <<"- ", names[i]>>], <<"\n">>)

NewRequestSection(text) == <<"Nouvelle demande :\n">> \o text

\* prompt_sections as it stands before the final join
ContextSections(history, memories, names) ==
    (IF history # <<>> THEN <<HistorySection(history)>> ELSE <<>>)
    \o (IF memories # <<>> THEN <<MemoriesSection(memories)>> ELSE <<>>)
    \o (IF names # <<>> THEN <<AttachmentsSection(names)>> ELSE <<>>)

\* The sections of the prompt handed to the provider: the bare text when
\* there is no context, else the context sections and the new request.
PromptSections(text, history, memories, names) ==
    IF ContextSections(history, memories, names) = <<>>
    THEN <<text>>
    ELSE Append(ContextSections(history, memories, names), NewRequestSection(text))

BuildPrompt(sections) == Join(sections, <<"\n\n">>)

\* The question is trimmed before it is stored.
HistoryQuestionStripped(text, names, is_audit) ==
    IF names # <<>>
    THEN Strip(text) \o <<"\n[Fichiers partagés : ">> \o JoinNames(names) \o <<"]">>
    ELSE IF is_audit
    THEN Strip(text) \o <<"\n[Auto-audit interne déclenché]">>
    ELSE Strip(text)

HistoryQuestion(text, names, is_audit) ==
    IF names # <<>>
    THEN text \o <<"\n[Fichiers partagés : ">> \o JoinNames(names) \o <<"]">>
    ELSE IF is_audit
    THEN text \o <<"\n[Auto-audit interne déclenché]">>
    ELSE text

ConversationMemory(text, names, is_audit, response_text) ==
    <<"Utilisateur : ">> \o text
    \o (IF is_audit THEN <<"\nCommande spéciale : auto-audit du code">>
        ELSE IF names # <<>> THEN <<"\nFichiers partagés : ">> \o JoinNames(names)
        ELSE <<>>)
    \o <<"\nJarvis : ">> \o response_text

AuditMemory(report_text) == <<"[Auto-audit du ", "timestamp", "]\n">> \o report_text

(***************************************************************************)
(* The chat handler.                                                       *)
(***************************************************************************)
NoResult == [kind |-> "none", text |-> <<>>, message |-> ""]

\* The locals of a call, and what it has called so far: history_seen and
\* retrieved are the ring and the memory lookup its prompt was built from,
\* stored counts the records it has put in the memory (the add_memory calls
\* that did not raise) and appended the entries it has put in the ring.
IdleReq ==
    [endpoint |-> "chat", store_in_memory |-> TRUE,
     text |-> <<>>, is_self_review |-> FALSE, attachments |-> <<>>,
     history_seen |-> <<>>, retrieved |-> Retrieval(FALSE, <<>>),
     prompt_sections |-> <<>>, result |-> NoResult, add_calls |-> <<>>,
     retrieve_calls |-> 0, generate_calls |-> 0, stored |-> 0, appended |-> 0,
     status |-> 0, detail |-> "", response |-> <<>>]

\* One add_memory call: what was passed, and the thread that made it.
AddCall(content, source, domain) ==
    [content |-> content, source |-> source, domain |-> domain]

NoStream == StreamEnd(<<>>, "none", "")

NoProbe == [backend |-> <<>>, generated |-> NoResult, streamed |-> NoStream]

IdleBridge ==
    [state |-> "IDLE", text |-> <<>>, backend |-> <<>>, pending |-> <<>>,
     end_kind |-> "none", end_message |-> "", queue |-> <<>>, worker_done |-> FALSE,
     received |-> <<>>, finalizations |-> 0, answer |-> <<>>, add_calls |-> <<>>,
     status |-> 0, history_before |-> <<>>, memory_before |-> 0]

Generate(b) == IF provider.kind = "openai" THEN OpenAIGenerate(b) ELSE HFGenerate(b)

Backends(inp) == IF provider.kind = "openai" THEN inp.openai ELSE inp.huggingface

Init ==
    /\ settings \in ChatSettings
    /\ provider = _initialise_provider(settings).provider
    /\ provider_error = _initialise_provider(settings).message
    /\ memory \in (IF PyTruthy(settings.openai_api_key) THEN BOOLEAN ELSE {FALSE})
    /\ memory_count = 0
    /\ recent_history = <<>>
    /\ pc = [r \in Slots |-> "idle"]
    /\ req = [r \in Slots |-> IdleReq]
    /\ ready = <<>>
    /\ started = 0
    /\ appends = 0
    /\ probe = NoProbe
    /\ bridge = IdleBridge

\* A new chat call takes the first slot that serves no call: which of the
\* free slots it takes makes no difference.
FreeSlot(r) == pc[r] = "idle" /\ \A q \in Slots : q < r => pc[q] # "idle"

\* raise HTTPException(status_code, detail): the locals of the call are gone,
\* what it did to the memory stays.
Fail(r, status_code, detail) ==
    /\ pc' = [pc EXCEPT ![r] = "failed"]
    /\ req' = [req EXCEPT ![r] =
          [IdleReq EXCEPT !.endpoint = req[r].endpoint,
                          !.text = req[r].text,
                          !.is_self_review = req[r].is_self_review,
                          !.add_calls = req[r].add_calls,
                          !.retrieve_calls = req[r].retrieve_calls,
                          !.generate_calls = req[r].generate_calls,
                          !.stored = req[r].stored,
                          !.appended = req[r].appended,
                          !.status = status_code, !.detail = detail]]

\* The configuration guard that answers with a fixed detail instead of the
\* recorded configuration error.
ChatRejectedGenericDetail(r, inp) ==
    /\ FreeSlot(r) /\ r <= inp.slots
    /\ started < inp.max
    /\ provider_error # "none" \/ provider.kind = "none"
    /\ \E text \in inp.texts :
        /\ pc' = [pc EXCEPT ![r] = "failed"]
        /\ req' = [req EXCEPT ![r] =
              [IdleReq EXCEPT !.text = text, !.status = 500, !.detail = "AI provider not initialised"]]
    /\ started' = started + 1
    /\ UNCHANGED <<settings, provider, provider_error, memory, memory_count, recent_history, ready, appends>>
    /\ UNCHANGED <<probe, bridge>>

\* chat(), lines 310-318: the configuration guards.
ChatRejected(r, inp) ==
    /\ FreeSlot(r) /\ r <= inp.slots
    /\ started < inp.max
    /\ provider_error # "none" \/ provider.kind = "none"
    /\ \E text \in inp.texts :
        /\ pc' = [pc EXCEPT ![r] = "failed"]
        /\ req' = [req EXCEPT ![r] =
              [IdleReq EXCEPT !.text = text, !.status = 500,
                              !.detail = IF provider_error # "none"
                                         THEN provider_error
                                         ELSE "AI provider not initialised"]]
    /\ started' = started + 1
    /\ UNCHANGED <<settings, provider, provider_error, memory, memory_count, recent_history, ready, appends>>
    /\ UNCHANGED <<probe, bridge>>

\* chat(), lines 320-334: a self-review request, up to the to_thread call.
ChatStartAudit(r, inp) ==
    /\ FreeSlot(r) /\ r <= inp.slots
    /\ started < inp.max
    /\ provider_error = "none" /\ provider.kind # "none"
    /\ \E text \in inp.texts :
        /\ _is_self_review_request(text)
        /\ req' = [req EXCEPT ![r] =
              [IdleReq EXCEPT !.text = text, !.is_self_review = TRUE]]
    /\ pc' = [pc EXCEPT ![r] = "audit_thread"]
    /\ started' = started + 1
    /\ UNCHANGED <<settings, provider, provider_error, memory, memory_count, recent_history, ready, appends>>
    /\ UNCHANGED <<probe, bridge>>

\* chat(), lines 345-416: uploads, memory lookup and prompt, up to the
\* to_thread call.
ChatStart(r, inp) ==
    /\ FreeSlot(r) /\ r <= inp.slots
    /\ started < inp.max
    /\ provider_error = "none" /\ provider.kind # "none"
    /\ \E text \in inp.texts, uploads \in inp.uploads, retrieved \in inp.retrievals :
        /\ ~_is_self_review_request(text)
        /\ req' = [req EXCEPT ![r] =
              [IdleReq EXCEPT
                 !.text = text,
                 !.attachments = ReadUploads(uploads),
                 !.history_seen = recent_history,
                 !.retrieved = IF memory THEN retrieved ELSE Retrieval(FALSE, <<>>),
                 !.retrieve_calls = IF memory THEN 1 ELSE 0,
                 !.prompt_sections =
                     PromptSections(text, recent_history,
                                    IF memory THEN RelevantMemories(retrieved) ELSE <<>>,
                                    ReadUploads(uploads))]]
    /\ pc' = [pc EXCEPT ![r] = "in_thread"]
    /\ started' = started + 1
    /\ UNCHANGED <<settings, provider, provider_error, memory, memory_count, recent_history, ready, appends>>
    /\ UNCHANGED <<probe, bridge>>

\* The worker thread of line 414: _provider.generate_response(prompt, attachments).
ProviderCall(r, inp) ==
    /\ pc[r] = "in_thread"
    /\ \E b \in Backends(inp) :
        req' = [req EXCEPT ![r].result = Generate(b),
                           ![r].generate_calls = @ + 1,
                           ![r].prompt_sections = <<>>,
                           ![r].history_seen = <<>>,
                           ![r].retrieved = Retrieval(FALSE, <<>>)]
    /\ pc' = [pc EXCEPT ![r] = "thread_done"]
    /\ ready' = Append(ready, r)
    /\ UNCHANGED <<settings, provider, provider_error, memory, memory_count, recent_history, started,
                   appends>>
    /\ UNCHANGED <<probe, bridge>>

\* A self-audit that records its exchange in the history itself, from the
\* worker thread.
PerformSelfAuditAppendsHistory(r, inp) ==
    /\ pc[r] = "audit_thread"
    /\ \E files \in inp.files, b \in Backends(inp), add_raises \in inp.add_raises :
        IF files = <<>>
        THEN /\ req' = [req EXCEPT ![r].result =
                   OtherException("Aucun fichier source détecté pour l'auto-revue.")]
             /\ UNCHANGED <<memory_count, recent_history, appends>>
        ELSE IF Generate(b).kind # "ok"
        THEN /\ req' = [req EXCEPT ![r].result = Generate(b),
                                   ![r].generate_calls = @ + 1]
             /\ UNCHANGED <<memory_count, recent_history, appends>>
        ELSE /\ req' = [req EXCEPT
                   ![r].result = Ok(Strip(Generate(b).text)),
                   ![r].generate_calls = @ + 1,
                   ![r].add_calls =
                       IF memory /\ req[r].store_in_memory
                       THEN Append(@, AddCall(AuditMemory(Strip(Generate(b).text)),
                                              "self-review", "worker"))
                       ELSE @,
                   ![r].stored = IF memory /\ req[r].store_in_memory /\ ~add_raises
                                 THEN @ + 1 ELSE @,
                   ![r].appended = @ + 1]
             /\ memory_count' = IF memory /\ req[r].store_in_memory /\ ~add_raises
                                THEN memory_count + 1 ELSE memory_count
             /\ recent_history' =
                   DequeAppend(recent_history,
                               <<HistoryQuestion(req[r].text, <<>>, TRUE),
                                 Strip(Generate(b).text)>>,
                               _RECENT_HISTORY_LIMIT)
             /\ appends' = appends + 1
    /\ pc' = [pc EXCEPT ![r] = "thread_done"]
    /\ ready' = Append(ready, r)
    /\ UNCHANGED <<settings, provider, provider_error, memory, started>>
    /\ UNCHANGED <<probe, bridge>>

\* A self-audit that stores its record whatever store_in_memory says.
PerformSelfAuditAlwaysStores(r, inp) ==
    /\ pc[r] = "audit_thread"
    /\ \E files \in inp.files, b \in Backends(inp), add_raises \in inp.add_raises :
        IF files = <<>>
        THEN /\ req' = [req EXCEPT ![r].result =
                   OtherException("Aucun fichier source détecté pour l'auto-revue.")]
             /\ UNCHANGED memory_count
        ELSE IF Generate(b).kind # "ok"
        THEN /\ req' = [req EXCEPT ![r].result = Generate(b),
                                   ![r].generate_calls = @ + 1]
             /\ UNCHANGED memory_count
        ELSE /\ req' = [req EXCEPT
                   ![r].result = Ok(Strip(Generate(b).text)),
                   ![r].generate_calls = @ + 1,
                   ![r].add_calls =
                       IF memory
                       THEN Append(@, AddCall(AuditMemory(Strip(Generate(b).text)),
                                              "self-review", "worker"))
                       ELSE @,
                   ![r].stored = IF memory /\ ~add_raises THEN @ + 1 ELSE @]
             /\ memory_count' = IF memory /\ ~add_raises
                                THEN memory_count + 1 ELSE memory_count
    /\ pc' = [pc EXCEPT ![r] = "thread_done"]
    /\ ready' = Append(ready, r)
    /\ UNCHANGED <<settings, provider, provider_error, memory, recent_history, started, appends>>
    /\ UNCHANGED <<probe, bridge>>

\* The worker thread of lines 334 and 478: _perform_self_audit(store_in_memory).
PerformSelfAudit(r, inp) ==
    /\ pc[r] = "audit_thread"
    /\ \E files \in inp.files, b \in Backends(inp), add_raises \in inp.add_raises :
        IF files = <<>>
        THEN /\ req' = [req EXCEPT ![r].result =
                   OtherException("Aucun fichier source détecté pour l'auto-revue.")]
             /\ UNCHANGED memory_count
        ELSE IF Generate(b).kind # "ok"
        THEN /\ req' = [req EXCEPT ![r].result = Generate(b),
                                   ![r].generate_calls = @ + 1]
             /\ UNCHANGED memory_count
        ELSE /\ req' = [req EXCEPT
                   ![r].result = Ok(Strip(Generate(b).text)),
                   ![r].generate_calls = @ + 1,
                   ![r].add_calls =
                       IF memory /\ req[r].store_in_memory
                       THEN Append(@, AddCall(AuditMemory(Strip(Generate(b).text)),
                                              "self-review", "worker"))
                       ELSE @,
                   ![r].stored = IF memory /\ req[r].store_in_memory /\ ~add_raises
                                 THEN @ + 1 ELSE @]
             /\ memory_count' = IF memory /\ req[r].store_in_memory /\ ~add_raises
                                THEN memory_count + 1 ELSE memory_count
    /\ pc' = [pc EXCEPT ![r] = "thread_done"]
    /\ ready' = Append(ready, r)
    /\ UNCHANGED <<settings, provider, provider_error, memory, recent_history, started, appends>>
    /\ UNCHANGED <<probe, bridge>>

\* chat(), lines 420-452: memory write, history append and reply.
Finalize(r, response_text, add_raises) ==
    /\ req' = [req EXCEPT
          ![r].add_calls =
              IF memory
              THEN Append(@, AddCall(ConversationMemory(req[r].text, req[r].attachments,
                                                        req[r].is_self_review,
                                                        response_text),
                                     "conversation", "loop"))
              ELSE @,
          ![r].stored = IF memory /\ ~add_raises THEN @ + 1 ELSE @,
          ![r].appended = @ + 1,
          ![r].status = 200,
          ![r].response = response_text]
    /\ memory_count' = IF memory /\ ~add_raises THEN memory_count + 1 ELSE memory_count
    /\ recent_history' =
          DequeAppend(recent_history,
                      <<HistoryQuestion(req[r].text, req[r].attachments,
                                        req[r].is_self_review),
                        response_text>>,
                      _RECENT_HISTORY_LIMIT)
    /\ appends' = appends + 1
    /\ pc' = [pc EXCEPT ![r] = "returned"]

\* The handler without its "except ProviderRequestError" clauses: a
\* provider failure falls through to the generic handler.
ChatResumeNoGatewayMapping(r, inp) ==
    /\ ready # <<>> /\ Head(ready) = r
    /\ pc[r] = "thread_done" /\ req[r].endpoint = "chat"
    /\ ready' = Tail(ready)
    /\ \E add_raises \in inp.add_raises :
        LET result == req[r].result IN
        IF result.kind \in {"request_error", "exception"}
        THEN Fail(r, 500, result.message)
             /\ UNCHANGED <<memory_count, recent_history, appends>>
        ELSE IF req[r].is_self_review /\ Strip(result.text) = <<>>
        THEN Fail(r, 500, "Rapport d'auto-audit vide")
             /\ UNCHANGED <<memory_count, recent_history, appends>>
        ELSE Finalize(r, IF req[r].is_self_review THEN Strip(result.text) ELSE result.text,
                      add_raises)
    /\ UNCHANGED <<settings, provider, provider_error, memory, started>>
    /\ UNCHANGED <<probe, bridge>>

\* The handler without the try/except around add_memory: a failing memory
\* write reaches the generic handler.
ChatResumeAddEscalates(r, inp) ==
    /\ ready # <<>> /\ Head(ready) = r
    /\ pc[r] = "thread_done" /\ req[r].endpoint = "chat"
    /\ ready' = Tail(ready)
    /\ \E add_raises \in inp.add_raises :
        LET result == req[r].result IN
        IF result.kind = "request_error"
        THEN Fail(r, 502, result.message)
             /\ UNCHANGED <<memory_count, recent_history, appends>>
        ELSE IF result.kind = "exception"
        THEN Fail(r, 500, result.message)
             /\ UNCHANGED <<memory_count, recent_history, appends>>
        ELSE IF req[r].is_self_review /\ Strip(result.text) = <<>>
        THEN Fail(r, 500, "Rapport d'auto-audit vide")
             /\ UNCHANGED <<memory_count, recent_history, appends>>
        ELSE IF memory /\ add_raises
        THEN Fail(r, 500, "add_memory failed")
             /\ UNCHANGED <<memory_count, recent_history, appends>>
        ELSE Finalize(r, IF req[r].is_self_review THEN Strip(result.text) ELSE result.text,
                      add_raises)
    /\ UNCHANGED <<settings, provider, provider_error, memory, started>>
    /\ UNCHANGED <<probe, bridge>>

\* The coroutine resumes on the event loop once its to_thread future is done.
ChatResume(r, inp) ==
    /\ ready # <<>> /\ Head(ready) = r
    /\ pc[r] = "thread_done" /\ req[r].endpoint = "chat"
    /\ ready' = Tail(ready)
    /\ \E add_raises \in inp.add_raises :
        LET result == req[r].result IN
        IF result.kind = "request_error"
        THEN Fail(r, 502, result.message)
             /\ UNCHANGED <<memory_count, recent_history, appends>>
        ELSE IF result.kind = "exception"
        THEN Fail(r, 500, result.message)
             /\ UNCHANGED <<memory_count, recent_history, appends>>
        ELSE IF req[r].is_self_review /\ Strip(result.text) = <<>>
        THEN Fail(r, 500, "Rapport d'auto-audit vide")
             /\ UNCHANGED <<memory_count, recent_history, appends>>
        ELSE Finalize(r, IF req[r].is_self_review THEN Strip(result.text) ELSE result.text,
                      add_raises)
    /\ UNCHANGED <<settings, provider, provider_error, memory, started>>
    /\ UNCHANGED <<probe, bridge>>

\* The reply or the HTTP error has been sent: the slot serves the next call.
Release(r) ==
    /\ pc[r] \in {"returned", "failed"}
    /\ pc' = [pc EXCEPT ![r] = "idle"]
    /\ req' = [req EXCEPT ![r] = IdleReq]
    /\ UNCHANGED <<settings, provider, provider_error, memory, memory_count, recent_history,
                   ready, started, appends>>
    /\ UNCHANGED <<probe, bridge>>

Step(inp) ==
    \/ \E r \in Slots : ChatRejected(r, inp)
    \/ \E r \in Slots : ChatStartAudit(r, inp)
    \/ \E r \in Slots : ChatStart(r, inp)
    \/ \E r \in Slots : ProviderCall(r, inp)
    \/ \E r \in Slots : PerformSelfAudit(r, inp)
    \/ \E r \in Slots : ChatResume(r, inp)
    \/ \E r \in Slots : Release(r)

Next == Step(ChatInputs)

Spec == Init /\ [][Next]_vars

\* Long runs of overlapping calls over few inputs: the history ring fills up
\* and evicts.
NextRing == Step(RingInputs)

SpecRing == Init /\ [][NextRing]_vars

\* Short runs of overlapping calls: the calls are finalized in every order,
\* with a memory whose add_memory may raise.
NextOverlap == Step(OverlapInputs)

SpecOverlap == Init /\ [][NextOverlap]_vars

(***************************************************************************)
(* The two methods of a provider on one backend answer.                    *)
(***************************************************************************)
Stream(b) == IF provider.kind = "openai" THEN OpenAIStream(b) ELSE HFStream(b)

\* What the backend answers to the streaming and to the plain call of
\* OpenAIProvider: the events of the stream, and the response object whose
\* output_text is the text of those events.
OpenAIAnswer(create_raises, response, stream_raises, events, final_available, final_raises) ==
    [create_raises |-> create_raises, response |-> response,
     stream_raises |-> stream_raises, events |-> events,
     final_available |-> final_available, final_raises |-> final_raises]

DeltaTexts == { <<>>, <<" ">>, <<"r">> }

DeltaLists == UNION { [1..n -> DeltaTexts] : n \in 0..MaxDeltas }

DeltaEvents(deltas) == [i \in 1..Len(deltas) |-> DeltaEvent(deltas[i])]

TextResponse(text) ==
    Response(text, IF text = <<>> THEN <<>> ELSE <<OutputTextItem(text)>>)

OpenAIAnswers ==
    \* the backend answers with a text, streamed as deltas; the final
    \* response comes with the completed event or from get_final_response
    { OpenAIAnswer(FALSE, TextResponse(Concat(deltas)), FALSE,
                   DeltaEvents(deltas) \o (IF completed THEN <<CompletedEvent>> ELSE <<>>),
                   final_available, FALSE) :
        deltas \in DeltaLists, completed \in BOOLEAN, final_available \in BOOLEAN }
    \cup
    \* the text is only in the output items of the response
    { OpenAIAnswer(FALSE,
                   Response(<<>>, <<[type |-> "reasoning", content |-> <<>>],
                                    OutputTextItem(<<" ", "r">>)>>),
                   FALSE, <<CompletedEvent>>, TRUE, FALSE) }
    \cup
    \* the backend fails: at once, with an error event after some deltas, or
    \* by breaking off after some deltas
    { OpenAIAnswer(TRUE, TextResponse(<<>>), TRUE, <<>>, FALSE, TRUE) }
    \cup
    { OpenAIAnswer(TRUE, TextResponse(<<>>), FALSE,
                   DeltaEvents(deltas) \o <<ErrorEvent(message)>>, FALSE, TRUE) :
        deltas \in DeltaLists, message \in {"", "rate limit"} }
    \cup
    { OpenAIAnswer(TRUE, TextResponse(<<>>), FALSE, DeltaEvents(deltas), FALSE, TRUE) :
        deltas \in DeltaLists }

JTexts == { JNone, JNum, JStr(<<>>), JStr(<<" ">>), JStr(<<"r">>) }

HFAnswers ==
    { HFBackend(TRUE, FALSE, JNone), HFBackend(FALSE, TRUE, JNone) }
    \cup { HFBackend(FALSE, FALSE, JList(<<>>)), HFBackend(FALSE, FALSE, JList(<<JStr(<<"r">>)>>)),
           HFBackend(FALSE, FALSE, JNum) }
    \cup { HFBackend(FALSE, FALSE, JList(<<JDict(g, t)>>)) : g \in JTexts, t \in {JNone} }
    \cup { HFBackend(FALSE, FALSE, JDict(g, t)) : g \in JTexts, t \in JTexts }

InitProvider ==
    /\ settings \in WorkingSettings
    /\ provider = _initialise_provider(settings).provider
    /\ provider_error = "none"
    /\ memory = FALSE
    /\ memory_count = 0
    /\ recent_history = <<>>
    /\ pc = [r \in Slots |-> "idle"]
    /\ req = [r \in Slots |-> IdleReq]
    /\ ready = <<>>
    /\ started = 0
    /\ appends = 0
    /\ \E b \in (IF provider.kind = "openai" THEN OpenAIAnswers ELSE HFAnswers) :
          probe = [backend |-> b, generated |-> NoResult, streamed |-> NoStream]
    /\ bridge = IdleBridge

\* provider.generate_response(prompt, attachments)
GenerateResponse ==
    /\ probe.generated.kind = "none"
    /\ probe' = [probe EXCEPT !.generated = Generate(probe.backend)]
    /\ UNCHANGED <<settings, provider, provider_error, memory, memory_count, recent_history,
                   pc, req, ready, started, appends, bridge>>

\* "".join(provider.stream_response(prompt, attachments)), consumed to its end
StreamResponse ==
    /\ probe.streamed.kind = "none"
    /\ probe' = [probe EXCEPT !.streamed = Stream(probe.backend)]
    /\ UNCHANGED <<settings, provider, provider_error, memory, memory_count, recent_history,
                   pc, req, ready, started, appends, bridge>>

NextProvider == GenerateResponse \/ StreamResponse

SpecProvider == InitProvider /\ [][NextProvider]_vars

(***************************************************************************)
(* The streaming bridge of a chat call with stream=true (design, sections  *)
(* 4.3 and 5): a worker pulls the chunks of provider.stream_response and   *)
(* hands them over a queue to the consumer that feeds the response.        *)
(***************************************************************************)
EMPTY_STREAM_PLACEHOLDER == <<"(réponse vide)">>

StreamAnswers ==
    IF provider.kind = "openai"
    THEN { OpenAIAnswer(FALSE, TextResponse(Concat(deltas)), FALSE,
                        DeltaEvents(deltas) \o <<CompletedEvent>>, TRUE, FALSE) :
             deltas \in { <<>>, <<<<"r">>>>,
                          <<<<"r">>, <<" ">>, <<"r">>, <<" ">>, <<"r">>>> } }
         \cup { OpenAIAnswer(TRUE, TextResponse(<<>>), TRUE, <<>>, FALSE, TRUE),
                OpenAIAnswer(TRUE, TextResponse(<<>>), FALSE,
                             <<DeltaEvent(<<"r">>), DeltaEvent(<<"r">>),
                               ErrorEvent("rate limit")>>, FALSE, TRUE) }
    ELSE { HFBackend(FALSE, FALSE, JList(<<JDict(JStr(<<"r">>), JNone)>>)),
           HFBackend(FALSE, FALSE, JList(<<JDict(JStr(<<>>), JNone)>>)),
           HFBackend(FALSE, FALSE, JList(<<JStr(<<"r">>)>>)),
           HFBackend(TRUE, FALSE, JNone) }

\* IDLE -> PRODUCING: the worker starts on provider.stream_response.
StreamStart ==
    /\ bridge.state = "IDLE"
    /\ started < MaxStreams
    /\ \E text \in {<<"a">>}, b \in StreamAnswers :
        bridge' = [IdleBridge EXCEPT
                     !.state = "PRODUCING", !.text = text, !.backend = b,
                     !.pending = Stream(b).chunks,
                     !.end_kind = Stream(b).kind,
                     !.end_message = Stream(b).message,
                     !.history_before = recent_history,
                     !.memory_before = memory_count]
    /\ started' = started + 1
    /\ UNCHANGED <<settings, provider, provider_error, memory, memory_count, recent_history,
                   pc, req, ready, appends, probe>>

\* The worker pushes the next chunk, or the end or error message once the
\* generator is exhausted; it runs to its end even if nobody listens.
WorkerPush ==
    /\ bridge.state # "IDLE"
    /\ ~bridge.worker_done
    /\ IF bridge.pending # <<>>
       THEN bridge' = [bridge EXCEPT
                         !.queue = Append(@, [tag |-> "chunk", text |-> Head(bridge.pending),
                                              message |-> ""]),
                         !.pending = Tail(@)]
       ELSE bridge' = [bridge EXCEPT
                         !.queue = Append(@, [tag |-> IF bridge.end_kind = "ok"
                                                      THEN "end" ELSE bridge.end_kind,
                                              text |-> <<>>,
                                              message |-> bridge.end_message]),
                         !.worker_done = TRUE]
    /\ UNCHANGED <<settings, provider, provider_error, memory, memory_count, recent_history,
                   pc, req, ready, started, appends, probe>>

\* PRODUCING -> COMPLETED: the one finalization of a streaming call.
StreamFinalize(answer, add_raises) ==
    /\ bridge' = [bridge EXCEPT
          !.queue = Tail(@),
          !.state = "COMPLETED",
          !.status = 200,
          !.answer = answer,
          !.finalizations = @ + 1,
          !.add_calls =
              IF memory
              THEN Append(@, AddCall(ConversationMemory(bridge.text, <<>>, FALSE, answer),
                                     "conversation", "loop"))
              ELSE @]
    /\ memory_count' = IF memory /\ ~add_raises THEN memory_count + 1 ELSE memory_count
    /\ recent_history' =
          DequeAppend(recent_history, <<HistoryQuestion(bridge.text, <<>>, FALSE), answer>>,
                      _RECENT_HISTORY_LIMIT)
    /\ appends' = appends + 1

\* The consumer takes the next message of the queue.
ConsumerPull ==
    /\ bridge.state = "PRODUCING"
    /\ bridge.queue # <<>>
    /\ LET m == Head(bridge.queue) IN
       IF m.tag = "chunk"
       THEN /\ bridge' = [bridge EXCEPT !.queue = Tail(@),
                                        !.received = Append(@, m.text)]
            /\ UNCHANGED <<memory_count, recent_history, appends>>
       ELSE IF m.tag = "end"
       THEN \E add_raises \in BOOLEAN :
               StreamFinalize(IF Concat(bridge.received) = <<>>
                              THEN EMPTY_STREAM_PLACEHOLDER
                              ELSE Concat(bridge.received),
                              add_raises)
       ELSE /\ bridge' = [bridge EXCEPT
                            !.queue = Tail(@),
                            !.state = "FAILED",
                            !.status = IF m.tag = "request_error" THEN 502 ELSE 500]
            /\ UNCHANGED <<memory_count, recent_history, appends>>
    /\ UNCHANGED <<settings, provider, provider_error, memory, pc, req, ready, started, probe>>

\* A cancellation that records what was received so far.
ConsumerCancelRecordsPartial ==
    /\ bridge.state = "PRODUCING"
    /\ bridge' = [bridge EXCEPT !.state = "CANCELLED"]
    /\ recent_history' =
          DequeAppend(recent_history,
                      <<HistoryQuestion(bridge.text, <<>>, FALSE), Concat(bridge.received)>>,
                      _RECENT_HISTORY_LIMIT)
    /\ appends' = appends + 1
    /\ UNCHANGED <<settings, provider, provider_error, memory, memory_count,
                   pc, req, ready, started, probe>>

\* PRODUCING -> CANCELLED: the client stops reading before the end of the
\* stream; whatever the worker still produces is discarded.
ConsumerCancel ==
    /\ bridge.state = "PRODUCING"
    /\ bridge' = [bridge EXCEPT !.state = "CANCELLED"]
    /\ UNCHANGED <<settings, provider, provider_error, memory, memory_count, recent_history,
                   pc, req, ready, started, appends, probe>>

\* The call is over and its worker joined: the next streaming call may start.
StreamClose ==
    /\ bridge.state \in {"COMPLETED", "FAILED", "CANCELLED"}
    /\ bridge.worker_done
    /\ bridge' = IdleBridge
    /\ UNCHANGED <<settings, provider, provider_error, memory, memory_count, recent_history,
                   pc, req, ready, started, appends, probe>>

InitStream ==
    /\ settings \in WorkingSettings
    /\ provider = _initialise_provider(settings).provider
    /\ provider_error = "none"
    /\ memory \in BOOLEAN
    /\ memory_count = 0
    /\ recent_history = <<>>
    /\ pc = [r \in Slots |-> "idle"]
    /\ req = [r \in Slots |-> IdleReq]
    /\ ready = <<>>
    /\ started = 0
    /\ appends = 0
    /\ probe = NoProbe
    /\ bridge = IdleBridge

NextStream ==
    \/ StreamStart
    \/ WorkerPush
    \/ ConsumerPull
    \/ ConsumerCancel
    \/ StreamClose

SpecStream == InitStream /\ [][NextStream]_vars

(***************************************************************************)
(* Properties.                                                             *)
(***************************************************************************)
Last(s) == s[Len(s)]

\* C1: in every reachable state the history ring holds at most 5 entries.
HistoryNeverExceedsLimit == Len(recent_history) <= 5

\* A sixth append has been made and the ring holds five entries.
HistoryFullAfterSixAppends == appends >= 6 /\ Len(recent_history) = 5

\* C2: every change of the ring is a FIFO append: the entries already there
\* keep their value and order, a ring below 5 entries keeps them all, a ring
\* of 5 entries loses exactly its oldest one, and the new entry comes last.
HistoryIsFifo ==
    [][ \/ recent_history' = recent_history
        \/ /\ Len(recent_history) < 5
           /\ recent_history' = Append(recent_history, Last(recent_history'))
        \/ /\ Len(recent_history) = 5
           /\ recent_history' = Append(Tail(recent_history), Last(recent_history'))
      ]_vars

\* A full ring whose oldest entry differs from its newest: an eviction of the
\* wrong end would show.
HistoryEvictedDistinct ==
    /\ appends >= 6
    /\ Len(recent_history) = 5
    /\ recent_history[1] # recent_history[5]

\* C3: a chat call without attachments that is not a self-review and whose
\* provider call returned a text replies, appends exactly one entry to the
\* ring, the newest one, equal to (user text, provider response), and its
\* payload is {response: provider response}.
ChatReplyAppendsOneEntry ==
    [][ \A r \in Slots :
          /\ ( /\ pc[r] = "thread_done" /\ pc'[r] # pc[r]
               /\ req[r].result.kind = "ok" /\ ~req[r].is_self_review )
             => pc'[r] = "returned"
          /\ ( /\ pc[r] = "thread_done" /\ pc'[r] = "returned"
               /\ ~req[r].is_self_review /\ req[r].attachments = <<>> )
             => /\ appends' = appends + 1
                /\ Len(recent_history') =
                      IF Len(recent_history) < 5 THEN Len(recent_history) + 1 ELSE 5
                /\ Last(recent_history') = <<req[r].text, req[r].result.text>>
                /\ req'[r].status = 200
                /\ req'[r].response = req[r].result.text
      ]_vars

\* A plain chat call with surrounding whitespace in its text has replied, and
\* its entry is the second of the ring.
PlainChatReplied ==
    \E r \in Slots :
        /\ pc[r] = "returned" /\ ~req[r].is_self_review /\ req[r].attachments = <<>>
        /\ req[r].text = <<" ", "a">>
        /\ Len(recent_history) = 2
        /\ Last(recent_history) = <<req[r].text, req[r].response>>

\* C4: when the provider call raises a ProviderRequestError the chat call
\* fails with status 502 and the provider's message as detail, the ring and
\* the memory are left as they were, and add_memory was never called for it.
ProviderErrorIsBadGateway ==
    [][ \A r \in Slots :
          ( /\ pc[r] = "thread_done" /\ pc'[r] # pc[r]
            /\ req[r].result.kind = "request_error" )
          => /\ pc'[r] = "failed"
             /\ req'[r].status = 502
             /\ req'[r].detail = req[r].result.message
             /\ req'[r].add_calls = <<>>
             /\ recent_history' = recent_history
             /\ memory_count' = memory_count
      ]_vars

\* A chat call has failed on a provider error while the ring holds an entry
\* and the memory is configured.
ProviderErrorSeen ==
    \E r \in Slots :
        /\ pc[r] = "failed" /\ req[r].status = 502
        /\ req[r].detail = "Failed to fetch a response from Hugging Face"
        /\ memory /\ recent_history # <<>>

\* C7: for both providers and every backend answer, a fully consumed
\* stream_response ends normally exactly when generate_response returns, and
\* the concatenation of its chunks is then the text generate_response
\* returns; HuggingFaceProvider streams exactly one chunk.
StreamEqualsGenerate ==
    (probe.generated.kind # "none" /\ probe.streamed.kind # "none")
    => /\ (probe.streamed.kind = "ok") <=> (probe.generated.kind = "ok")
       /\ probe.generated.kind = "ok"
          => Concat(probe.streamed.chunks) = probe.generated.text
       /\ (provider.kind = "huggingface" /\ probe.streamed.kind = "ok")
          => probe.streamed.chunks = <<probe.generated.text>>

\* C8: OpenAIProvider never completes normally without text: a stream that
\* would end after zero chunks raises a ProviderRequestError, and so does
\* generate_response where it would return an empty string.
OpenAINeverCompletesEmpty ==
    provider.kind = "openai"
    => /\ probe.streamed.kind \in {"none", "ok", "request_error"}
       /\ probe.generated.kind \in {"none", "ok", "request_error"}
       /\ probe.streamed.kind = "ok"
          => /\ probe.streamed.chunks # <<>>
             /\ \A i \in 1..Len(probe.streamed.chunks) : probe.streamed.chunks[i] # <<>>
       /\ probe.generated.kind = "ok" => probe.generated.text # <<>>

\* A backend stream of empty deltas only, completed, with an empty final
\* response: both methods have raised.
OpenAIEmptyAnswerRaised ==
    /\ provider.kind = "openai"
    /\ ~probe.backend.create_raises /\ ~probe.backend.stream_raises
    /\ probe.backend.events = <<DeltaEvent(<<>>), CompletedEvent>>
    /\ probe.streamed.kind = "request_error"
    /\ probe.streamed.message = "Empty response received from OpenAI"
    /\ probe.generated.kind = "request_error"

\* The producer's call fails on this backend answer.
BackendFails(b) ==
    IF provider.kind = "openai"
    THEN \/ b.stream_raises
         \/ \E i \in 1..Len(b.events) : b.events[i].type = "response.error"
    ELSE b.http_error \/ b.body_not_json

\* C5: the finalization of a streaming call (history append and memory
\* write) runs at most once, only when the stream completed: never when the
\* producer's call failed, never after a cancellation, never before the end
\* of the stream; and the answer it stores is never empty.
StreamFinalizedOnceOnCompletion ==
    /\ bridge.finalizations <= 1
    /\ Len(bridge.add_calls) <= bridge.finalizations
    /\ bridge.finalizations = 1
       => /\ bridge.state = "COMPLETED"
          /\ bridge.answer # <<>>
          /\ Last(recent_history) = <<bridge.text, bridge.answer>>
    /\ bridge.state \in {"PRODUCING", "FAILED", "CANCELLED"}
       => /\ bridge.finalizations = 0
          /\ recent_history = bridge.history_before
          /\ memory_count = bridge.memory_before
    /\ (bridge.state # "IDLE" /\ BackendFails(bridge.backend))
       => bridge.finalizations = 0
    /\ \A i \in 1..Len(recent_history) : recent_history[i][2] # <<>>

\* A stream of one empty chunk has completed and the placeholder is stored.
EmptyStreamStoredPlaceholder ==
    /\ bridge.state = "COMPLETED"
    /\ bridge.received = << <<>> >>
    /\ bridge.finalizations = 1
    /\ Last(recent_history) = <<bridge.text, EMPTY_STREAM_PLACEHOLDER>>

\* C6: when the consumer of a streaming call stops reading before the end
\* of the stream, the ring gains no entry and add_memory is never called for
\* that call, whatever the worker still produces.
CancelledStreamLeavesNoTrace ==
    bridge.state = "CANCELLED"
    => /\ bridge.finalizations = 0
       /\ bridge.add_calls = <<>>
       /\ recent_history = bridge.history_before
       /\ memory_count = bridge.memory_before

\* The consumer stopped after 2 of 5 chunks and the worker has run to its end.
CancelledAfterTwoOfFive ==
    /\ bridge.state = "CANCELLED"
    /\ Len(bridge.received) = 2
    /\ Len(bridge.received) + Len(bridge.queue) = 6
    /\ bridge.worker_done
    /\ memory

PromptEndsWithTrimmedText ==
    \A r \in Slots :
        (pc[r] = "in_thread" /\ Strip(req[r].text) # <<>>)
        => /\ Last(req[r].prompt_sections)
                \in { Strip(req[r].text), NewRequestSection(Strip(req[r].text)) }
           /\ \A i \in 1..Len(req[r].prompt_sections) : req[r].prompt_sections[i] # <<>>

(***************************************************************************)
(* The /self-review endpoint: trigger_self_review(store_in_memory).        *)
(***************************************************************************)
\* trigger_self_review, lines 464-478: the configuration guards, then the
\* to_thread call.
TriggerSelfReview(r, inp) ==
    /\ FreeSlot(r) /\ r <= inp.slots
    /\ started < inp.max
    /\ \E store_in_memory \in BOOLEAN :
        IF provider_error # "none" \/ provider.kind = "none"
        THEN /\ pc' = [pc EXCEPT ![r] = "failed"]
             /\ req' = [req EXCEPT ![r] =
                   [IdleReq EXCEPT !.endpoint = "self-review",
                                   !.status = 500,
                                   !.detail = IF provider_error # "none"
                                              THEN provider_error
                                              ELSE "AI provider not initialised"]]
        ELSE /\ pc' = [pc EXCEPT ![r] = "audit_thread"]
             /\ req' = [req EXCEPT ![r] =
                   [IdleReq EXCEPT !.endpoint = "self-review",
                                   !.store_in_memory = store_in_memory,
                                   !.is_self_review = TRUE]]
    /\ started' = started + 1
    /\ UNCHANGED <<settings, provider, provider_error, memory, memory_count, recent_history,
                   ready, appends>>
    /\ UNCHANGED <<probe, bridge>>

\* trigger_self_review, lines 478-491: the audit result is returned as it
\* is, or the failure mapped to 502 or 500.
TriggerSelfReviewResume(r, inp) ==
    /\ ready # <<>> /\ Head(ready) = r
    /\ pc[r] = "thread_done" /\ req[r].endpoint = "self-review"
    /\ ready' = Tail(ready)
    /\ LET result == req[r].result IN
       IF result.kind = "request_error" THEN Fail(r, 502, result.message)
       ELSE IF result.kind = "exception" THEN Fail(r, 500, result.message)
       ELSE /\ pc' = [pc EXCEPT ![r] = "returned"]
            /\ req' = [req EXCEPT ![r].status = 200, ![r].response = result.text]
    /\ UNCHANGED <<settings, provider, provider_error, memory, memory_count, recent_history,
                   started, appends>>
    /\ UNCHANGED <<probe, bridge>>

ReviewInputs ==
    Inputs({ <<"a">>, <<"Auto-Audit">> },
           { <<>> },
           { Retrieval(FALSE, << <<"m">> >>) },
           BOOLEAN,
           { <<>>, <<"backend/main.py">> },
           { OpenAIBackend(FALSE, Response(<<"r">>, <<OutputTextItem(<<"r">>)>>)),
             OpenAIBackend(TRUE, Response(<<>>, <<>>)) },
           { HFBackend(FALSE, FALSE, JList(<<JDict(JStr(<<"r">>), JNone)>>)),
             HFBackend(FALSE, FALSE, JDict(JNone, JStr(<<" ">>))),
             HFBackend(TRUE, FALSE, JNone),
             HFBackend(FALSE, TRUE, JNone) },
           MaxRequests, MaxSlots)

\* Chat calls and /self-review calls side by side.
NextReview ==
    \/ Step(ReviewInputs)
    \/ \E r \in Slots : TriggerSelfReview(r, ReviewInputs)
    \/ \E r \in Slots : TriggerSelfReviewResume(r, ReviewInputs)

SpecReview == Init /\ [][NextReview]_vars

(***************************************************************************)
(* services/self_review.py: run_self_review.                               *)
(***************************************************************************)
\* A text the provider returns is a sequence of tokens: white space,
\* punctuation, the literals 1 and null, string literals, or anything else.
\* The string literals of the inputs and the str each one decodes to:
StringValue ==
    [tok \in { "\"architecture\"", "\"securite\"", "\"lisibilite_style\"",
               "\"performance\"", "\"maintenabilite\"",
               "\"ameliorations_proposees\"", "\"extra\"",
               "\" v \"", "\"w\"", "\" \"", "\"\"" } |->
        CASE tok = "\"architecture\"" -> <<"architecture">>
          [] tok = "\"securite\"" -> <<"securite">>
          [] tok = "\"lisibilite_style\"" -> <<"lisibilite_style">>
          [] tok = "\"performance\"" -> <<"performance">>
          [] tok = "\"maintenabilite\"" -> <<"maintenabilite">>
          [] tok = "\"ameliorations_proposees\"" -> <<"ameliorations_proposees">>
          [] tok = "\"extra\"" -> <<"extra">>
          [] tok = "\" v \"" -> <<" ", "v", " ">>
          [] tok = "\"w\"" -> <<"w">>
          [] tok = "\" \"" -> <<" ">>
          [] tok = "\"\"" -> <<>>]

JObject(members) == [t |-> "object", v |-> members]
JArray(items) == [t |-> "array", v |-> items]

Parsed(value, rest) == [ok |-> TRUE, value |-> value, rest |-> rest]
JSONDecodeError == [ok |-> FALSE, value |-> JNone, rest |-> <<>>]

\* The JSON decoder: one value at the head of the tokens, and what follows.
RECURSIVE ParseValue(_)
RECURSIVE ParseMembers(_, _)
RECURSIVE ParseItems(_, _)
ParseValue(tokens) ==
    LET ts == LStrip(tokens) IN
    IF ts = <<>> THEN JSONDecodeError
    ELSE IF Head(ts) \in DOMAIN StringValue
    THEN Parsed(JStr(StringValue[Head(ts)]), Tail(ts))
    ELSE IF Head(ts) = "1" THEN Parsed(JNum, Tail(ts))
    ELSE IF Head(ts) = "null" THEN Parsed(JNone, Tail(ts))
    ELSE IF Head(ts) = "{"
    THEN IF LStrip(Tail(ts)) # <<>> /\ Head(LStrip(Tail(ts))) = "}"
         THEN Parsed(JObject(<<>>), Tail(LStrip(Tail(ts))))
         ELSE ParseMembers(Tail(ts), <<>>)
    ELSE IF Head(ts) = "["
    THEN IF LStrip(Tail(ts)) # <<>> /\ Head(LStrip(Tail(ts))) = "]"
         THEN Parsed(JArray(<<>>), Tail(LStrip(Tail(ts))))
         ELSE ParseItems(Tail(ts), <<>>)
    ELSE JSONDecodeError

\* key : value, then a comma and more members, or the closing brace
ParseMembers(tokens, members) ==
    LET ts == LStrip(tokens) IN
    IF ts = <<>> \/ Head(ts) \notin DOMAIN StringValue THEN JSONDecodeError
    ELSE LET colon == LStrip(Tail(ts)) IN
         IF colon = <<>> \/ Head(colon) # ":" THEN JSONDecodeError
         ELSE LET value == ParseValue(Tail(colon)) IN
              IF ~value.ok THEN JSONDecodeError
              ELSE LET after == LStrip(value.rest)
                       found == Append(members, <<StringValue[Head(ts)], value.value>>)
                   IN IF after = <<>> THEN JSONDecodeError
                      ELSE IF Head(after) = "," THEN ParseMembers(Tail(after), found)
                      ELSE IF Head(after) = "}" THEN Parsed(JObject(found), Tail(after))
                      ELSE JSONDecodeError

\* value, then a comma and more items, or the closing bracket
ParseItems(tokens, items) ==
    LET value == ParseValue(tokens) IN
    IF ~value.ok THEN JSONDecodeError
    ELSE LET after == LStrip(value.rest) IN
         IF after = <<>> THEN JSONDecodeError
         ELSE IF Head(after) = ","
         THEN ParseItems(Tail(after), Append(items, value.value))
         ELSE IF Head(after) = "]"
         THEN Parsed(JArray(Append(items, value.value)), Tail(after))
         ELSE JSONDecodeError

\* json.loads(text): the whole text is one value
json_loads(text) ==
    IF ParseValue(text).ok /\ LStrip(ParseValue(text).rest) = <<>>
    THEN ParseValue(text)
    ELSE JSONDecodeError

_EXPECTED_KEYS ==
    { "architecture", "securite", "lisibilite_style", "performance",
      "maintenabilite", "ameliorations_proposees" }

MissingInformation ==
    <<"Information manquante pour cette section dans la réponse du provider.">>

\* dict.get(key): the value of the last member of that key, else None
RECURSIVE DictGet(_, _)
DictGet(members, key) ==
    IF members = <<>> THEN JNone
    ELSE IF members[Len(members)][1] = <<key>> THEN members[Len(members)][2]
    ELSE DictGet(SubSeq(members, 1, Len(members) - 1), key)

\* The token FENCE stands for the line of three backquotes.
_fallback_report(raw_response, reason) ==
    [section \in _EXPECTED_KEYS |->
        Strip(<<reason, "\n\nRéponse brute du provider :\nFENCE\n">>
              \o Strip(raw_response) \o <<"\nFENCE">>)]

NoOutcome == [kind |-> "none", report |-> <<>>, message |-> ""]
Report(report) == [kind |-> "report", report |-> report, message |-> ""]
Raised(kind, message) == [kind |-> kind, report |-> <<>>, message |-> message]

\* What the provider does on generate_response: it raises, or returns a text.
ProviderAnswer(raises, text) == [raises |-> raises, text |-> text]

\* run_self_review without the isinstance(parsed, dict) test
run_self_review_no_dict_check(answer) ==
    IF answer.raises
    THEN Raised("SelfReviewError", "Échec de l'appel au provider d'IA pour l'audit.")
    ELSE IF ~json_loads(answer.text).ok
    THEN Report(_fallback_report(answer.text,
                    "Impossible de décoder la réponse du provider en JSON."))
    ELSE IF json_loads(answer.text).value.t # "object"
    THEN Raised("AttributeError", "object has no attribute 'get'")
    ELSE Report([key \in _EXPECTED_KEYS |->
            LET value == DictGet(json_loads(answer.text).value.v, key) IN
            IF value.t = "str" /\ Strip(value.v) # <<>>
            THEN Strip(value.v) ELSE MissingInformation])

\* run_self_review taking every str value as it is
run_self_review_keeps_value(answer) ==
    IF answer.raises
    THEN Raised("SelfReviewError", "Échec de l'appel au provider d'IA pour l'audit.")
    ELSE IF ~json_loads(answer.text).ok
    THEN Report(_fallback_report(answer.text,
                    "Impossible de décoder la réponse du provider en JSON."))
    ELSE IF json_loads(answer.text).value.t # "object"
    THEN Report(_fallback_report(answer.text,
                    "Le provider n'a pas renvoyé un objet JSON pour l'audit."))
    ELSE Report([key \in _EXPECTED_KEYS |->
            LET value == DictGet(json_loads(answer.text).value.v, key) IN
            IF value.t = "str" THEN value.v ELSE MissingInformation])

run_self_review(answer) ==
    IF answer.raises
    THEN Raised("SelfReviewError", "Échec de l'appel au provider d'IA pour l'audit.")
    ELSE IF ~json_loads(answer.text).ok
    THEN Report(_fallback_report(answer.text,
                    "Impossible de décoder la réponse du provider en JSON."))
    ELSE IF json_loads(answer.text).value.t # "object"
    THEN Report(_fallback_report(answer.text,
                    "Le provider n'a pas renvoyé un objet JSON pour l'audit."))
    ELSE Report([key \in _EXPECTED_KEYS |->
            LET value == DictGet(json_loads(answer.text).value.v, key) IN
            IF value.t = "str" /\ Strip(value.v) # <<>>
            THEN Strip(value.v) ELSE MissingInformation])

\* The provider answers run_self_review is tried on.  An object text has, for
\* each expected key in turn, no member, a str with outer white space, a
\* blank str or a number, and may have a member of another key.
KeyTokens ==
    <<"\"architecture\"", "\"securite\"", "\"lisibilite_style\"",
      "\"performance\"", "\"maintenabilite\"", "\"ameliorations_proposees\"">>

ValueChoices == { <<>>, <<"\" v \"">>, <<"\" \"">>, <<"1">> }

ObjectText(choices, extra) ==
    <<"{">>
    \o Join(SelectNonEmpty(
              [i \in 1..Len(KeyTokens) |->
                  IF choices[i] = <<>> THEN <<>>
                  ELSE <<KeyTokens[i], ":", " ">> \o choices[i]]
              \o (IF extra THEN << <<"\"extra\"", ":", "\"w\"">> >> ELSE <<>>)),
            <<",", " ">>)
    \o <<"}">>

ObjectTexts ==
    { ObjectText(choices, extra) :
        choices \in [1..Len(KeyTokens) -> ValueChoices], extra \in BOOLEAN }

OtherTexts ==
    { <<>>, <<"Voici">>, <<"Voici", " ", "{", "}">>, <<"{", "}", " ", "merci">>,
      <<"{">>, <<"{", "\"architecture\"", ":">>,
      <<"{", "\"architecture\"", ":", "\"w\"", ",", "}">>,
      <<"[", "]">>, <<" ", "[", "{", "}", ",", "1", "]", "\n">>,
      <<"\" v \"">>, <<"1">>, <<"null">>, <<" ", "\n", "1", "\n">>,
      <<"\n", "{", "\"architecture\"", ":", "\"w\"", ",",
        "\"architecture\"", ":", "null", "}", "\n">>,
      <<"{", "\"securite\"", ":", "[", "\"w\"", "]", ",",
        "\"performance\"", ":", "{", "\"extra\"", ":", "\"w\"", "}", ",",
        "\"maintenabilite\"", ":", "\"w\"", "}">> }

SelfReviewAnswers ==
    { ProviderAnswer(TRUE, <<>>) }
    \cup { ProviderAnswer(FALSE, text) : text \in ObjectTexts \cup OtherTexts }

InitSelfReview ==
    /\ settings \in WorkingSettings
    /\ provider = _initialise_provider(settings).provider
    /\ provider_error = "none"
    /\ memory = FALSE
    /\ memory_count = 0
    /\ recent_history = <<>>
    /\ pc = [r \in Slots |-> "idle"]
    /\ req = [r \in Slots |-> IdleReq]
    /\ ready = <<>>
    /\ started = 0
    /\ appends = 0
    /\ \E answer \in SelfReviewAnswers : probe = [backend |-> answer, outcome |-> NoOutcome]
    /\ bridge = IdleBridge

\* run_self_review(provider, project_root)
RunSelfReview ==
    /\ probe.outcome.kind = "none"
    /\ probe' = [probe EXCEPT !.outcome = run_self_review(probe.backend)]
    /\ UNCHANGED <<settings, provider, provider_error, memory, memory_count, recent_history,
                   pc, req, ready, started, appends, bridge>>

NextSelfReview == RunSelfReview

SpecSelfReview == InitSelfReview /\ [][NextSelfReview]_vars

(***************************************************************************)
(* Start-up: _initialise_provider() over the settings.                     *)
(***************************************************************************)
CreateSettings ==
    { Settings(name, okey, omodel, hkey, hmodel) :
        name \in {"openai", "OpenAI", "huggingface", "invalid", ""},
        okey \in {PyNone, PyStr(""), PyStr("test-key")},
        omodel \in {PyNone, PyStr("gpt-test")},
        hkey \in {PyNone, PyStr("hf-key")},
        hmodel \in {PyNone, PyStr(""), PyStr("distilgpt2")} }

InitCreate ==
    /\ settings \in CreateSettings
    /\ provider = NoProvider
    /\ provider_error = "none"
    /\ memory = FALSE
    /\ memory_count = 0
    /\ recent_history = <<>>
    /\ pc = [r \in Slots |-> "idle"]
    /\ req = [r \in Slots |-> IdleReq]
    /\ ready = <<>>
    /\ started = 0
    /\ appends = 0
    /\ probe = NoProbe
    /\ bridge = IdleBridge

\* The module-level call of _initialise_provider().
InitialiseProvider ==
    /\ started = 0
    /\ provider' = _initialise_provider(settings).provider
    /\ provider_error' = _initialise_provider(settings).message
    /\ started' = 1
    /\ UNCHANGED <<settings, memory, memory_count, recent_history, pc, req, ready,
                   appends, probe, bridge>>

NextCreate == InitialiseProvider

SpecCreate == InitCreate /\ [][NextCreate]_vars

(***************************************************************************)
(* The prompt of a chat call.                                              *)
(***************************************************************************)
\* The first line of the temporal context block the tests expect at the
\* head of the prompt.
TemporalContextHeader == "Informations temporelles actuelles :\n"

\* What a section of the prompt is, by its header; the request may stand
\* alone, without its header.
SectionKind(section, text) ==
    IF section = <<>> THEN "empty"
    ELSE IF Head(section) = TemporalContextHeader THEN "temporal"
    ELSE IF Head(section) = Head(HistorySection(<<>>)) THEN "history"
    ELSE IF Head(section) = Head(MemoriesSection(<<>>)) THEN "memories"
    ELSE IF Head(section) = Head(AttachmentsSection(<<>>)) THEN "attachments"
    ELSE IF section = NewRequestSection(text) \/ section = text THEN "request"
    ELSE "other"

SectionKinds(sections, text) ==
    [i \in 1..Len(sections) |-> SectionKind(sections[i], text)]

\* C11: when the history, the retrieved memories and the attachments are
\* all empty, the prompt handed to the provider is exactly the trimmed user
\* text, with no header and no other section.
BarePromptIsTrimmedText ==
    \A r \in Slots :
        ( /\ pc[r] = "in_thread"
          /\ Strip(req[r].text) # <<>>
          /\ req[r].history_seen = <<>>
          /\ RelevantMemories(req[r].retrieved) = <<>>
          /\ req[r].attachments = <<>> )
        => BuildPrompt(req[r].prompt_sections) = Strip(req[r].text)

\* C12: for a chat call made with an empty history and no attachments, the
\* prompt begins with the temporal context block and ends with the line
\* "Nouvelle demande :" followed by the user text.
PromptBeginsWithTemporalContext ==
    \A r \in Slots :
        ( /\ pc[r] = "in_thread"
          /\ req[r].history_seen = <<>>
          /\ req[r].attachments = <<>> )
        => /\ Head(BuildPrompt(req[r].prompt_sections)) = TemporalContextHeader
           /\ Last(req[r].prompt_sections) = NewRequestSection(req[r].text)

\* C13: the sections of the prompt are, in this order, the temporal
\* context, the history block (every entry of the ring, numbered from 1,
\* oldest first), the retrieved memories, the attachment manifest and the
\* new request; the history, memory and attachment sections are there
\* exactly when their data is not empty, and the request is always there.
PromptSectionsInFixedOrder ==
    \A r \in Slots :
        pc[r] = "in_thread"
        => /\ SectionKinds(req[r].prompt_sections, req[r].text) =
                <<"temporal">>
                \o (IF req[r].history_seen # <<>> THEN <<"history">> ELSE <<>>)
                \o (IF RelevantMemories(req[r].retrieved) # <<>>
                    THEN <<"memories">> ELSE <<>>)
                \o (IF req[r].attachments # <<>> THEN <<"attachments">> ELSE <<>>)
                \o <<"request">>
           /\ \A i \in 1..Len(req[r].prompt_sections) :
                SectionKind(req[r].prompt_sections[i], req[r].text) = "history"
                => req[r].prompt_sections[i] = HistorySection(req[r].history_seen)

\* C14: a chat call whose text is blank once trimmed is rejected with a
\* client-error status before anything else happens: it never reaches the
\* memory lookup, the provider call, the memory write or the reply.
BlankTextRejected ==
    \A r \in Slots :
        (req[r].endpoint = "chat" /\ Strip(req[r].text) = <<>>)
        => /\ pc[r] \in {"idle", "failed"}
           /\ (pc[r] = "failed" /\ provider_error = "none")
              => req[r].status \in 400..499
           /\ req[r].retrieve_calls = 0
           /\ req[r].generate_calls = 0
           /\ req[r].add_calls = <<>>

\* C15: failures of the memory never reach the caller.  A chat call whose
\* retrieve_relevant raised, or that has no memory, builds its prompt
\* without a memory section and goes on to the provider; the only call that
\* fails before its provider call is one made without a provider; and a call
\* whose provider call returned replies with the provider's text and appends
\* it to the history whether add_memory raised or not.
MemoryFailuresNeverEscalate ==
    [][ \A r \in Slots :
          /\ (pc'[r] = "in_thread" /\ (req'[r].retrieved.raises \/ ~memory))
             => /\ \A i \in 1..Len(req'[r].prompt_sections) :
                     SectionKind(req'[r].prompt_sections[i], req'[r].text) # "memories"
                /\ SectionKind(Last(req'[r].prompt_sections), req'[r].text) = "request"
          /\ (pc[r] = "idle" /\ pc'[r] = "failed")
             => (provider_error # "none" /\ req'[r].retrieve_calls = 0)
          /\ ( /\ pc[r] = "thread_done" /\ pc'[r] # "thread_done"
               /\ req[r].result.kind = "ok"
               /\ ~(req[r].is_self_review /\ Strip(req[r].result.text) = <<>>) )
             => /\ pc'[r] = "returned"
                /\ req'[r].status = 200
                /\ req'[r].response = (IF req[r].is_self_review
                                       THEN Strip(req[r].result.text)
                                       ELSE req[r].result.text)
                /\ appends' = appends + 1
                /\ Last(recent_history')[2] = req'[r].response
      ]_vars

\* A call whose memory lookup raised is on its way to the provider, its
\* prompt built from the history alone; the call before it has replied and
\* is in the history although its memory write raised.
ProceedsDespiteMemoryFailures ==
    \E r \in Slots :
        /\ pc[r] = "in_thread"
        /\ memory
        /\ req[r].retrieve_calls = 1 /\ req[r].retrieved.raises
        /\ appends = 1 /\ memory_count = 0
        /\ req[r].history_seen = recent_history /\ Len(recent_history) = 1
        /\ SectionKinds(req[r].prompt_sections, req[r].text) = <<"history", "request">>

\* C16: once a provider configuration error has been recorded, every chat
\* call fails with status 500 and the configuration message as detail,
\* without a provider call, a memory lookup or a memory write and without a
\* history append; and the recorded configuration never changes.
ConfigurationErrorFailsEveryChat ==
    [][ /\ provider' = provider /\ provider_error' = provider_error
        /\ provider_error # "none"
           => /\ recent_history' = <<>> /\ memory_count' = 0 /\ appends' = 0
              /\ \A r \in Slots :
                   /\ pc'[r] \in {"idle", "failed"}
                   /\ req'[r].retrieve_calls = 0
                   /\ req'[r].generate_calls = 0
                   /\ req'[r].add_calls = <<>>
                   /\ pc'[r] = "failed"
                      => req'[r].status = 500 /\ req'[r].detail = provider_error
      ]_vars

\* Two chat calls in a row were rejected with the message of the unknown
\* provider name, with a memory at hand.
BothCallsRejectedForConfiguration ==
    /\ provider_error = "Unknown AI provider 'invalid'"
    /\ provider = NoProvider
    /\ memory
    /\ started = 2
    /\ pc[1] = "failed"
    /\ req[1].status = 500 /\ req[1].detail = "Unknown AI provider 'invalid'"

\* C17: create_provider returns a provider of the variant named, carrying
\* the key and the model it was given, or raises a configuration error and
\* yields no provider: an unknown name, a missing OpenAI key and a missing
\* Hugging Face model always raise.
CreateProviderCompleteOrRaises ==
    started = 1
    => \/ /\ provider_error = "none"
          /\ provider.kind = "openai"
          /\ settings.ai_provider \in {"openai", "OpenAI"}
          /\ PyTruthy(settings.openai_api_key)
          /\ provider.api_key = settings.openai_api_key
          /\ PyTruthy(provider.model)
          /\ PyTruthy(settings.openai_model) => provider.model = settings.openai_model
       \/ /\ provider_error = "none"
          /\ provider.kind = "huggingface"
          /\ settings.ai_provider = "huggingface"
          /\ PyTruthy(settings.huggingface_model)
          /\ provider.model = settings.huggingface_model
          /\ provider.api_key = settings.huggingface_api_key
       \/ /\ provider_error # "none"
          /\ provider = NoProvider
          /\ \/ settings.ai_provider \notin {"openai", "OpenAI", "huggingface"}
             \/ /\ settings.ai_provider \in {"openai", "OpenAI"}
                /\ ~PyTruthy(settings.openai_api_key)
             \/ /\ settings.ai_provider = "huggingface"
                /\ ~PyTruthy(settings.huggingface_model)

\* The name is "OpenAI" and the key is the empty string: no provider.
OpenAIWithEmptyKeyRaised ==
    /\ started = 1
    /\ settings.ai_provider = "OpenAI"
    /\ settings.openai_api_key = PyStr("")
    /\ provider = NoProvider
    /\ provider_error = "An OpenAI API key is required"

\* sub is a run of consecutive tokens of s
Contains(s, sub) ==
    \E i \in 1..(Len(s) - Len(sub) + 1) : SubSeq(s, i, i + Len(sub) - 1) = sub

ValuesOf(members, key) ==
    { members[i][2] : i \in { j \in 1..Len(members) :
                                /\ members[j][1] = <<key>>
                                /\ \A l \in (j + 1)..Len(members) : members[l][1] # <<key>> } }

\* C19: when the provider's text is a JSON object, run_self_review returns
\* a report whose keys are exactly the six expected ones; each key holds,
\* independently of the others, the trimmed str the object gives it when
\* that is a str that is not blank, and the "missing information" message
\* otherwise; no other key of the object is in the report.
ObjectAnswerYieldsSectionReport ==
    ( /\ probe.outcome.kind # "none"
      /\ ~probe.backend.raises
      /\ json_loads(probe.backend.text).ok
      /\ json_loads(probe.backend.text).value.t = "object" )
    => /\ probe.outcome.kind = "report"
       /\ DOMAIN probe.outcome.report = _EXPECTED_KEYS
       /\ \A key \in _EXPECTED_KEYS :
            LET given == { value \in ValuesOf(json_loads(probe.backend.text).value.v, key) :
                             value.t = "str" /\ Strip(value.v) # <<>> }
            IN /\ given = {}
                  => probe.outcome.report[key] = MissingInformation
               /\ \A value \in given : probe.outcome.report[key] = Strip(value.v)

\* The object lacks one expected key, gives one a number and one a blank
\* str, and has a key of its own: three placeholders, three trimmed texts.
PartialObjectReported ==
    /\ probe.backend.text =
          ObjectText(<< <<>>, <<"\" v \"">>, <<"1">>, <<"\" v \"">>, <<"\" \"">>,
                        <<"\" v \"">> >>, TRUE)
    /\ probe.outcome.kind = "report"
    /\ probe.outcome.report =
          [key \in _EXPECTED_KEYS |->
              IF key \in {"securite", "performance", "ameliorations_proposees"}
              THEN <<"v">> ELSE MissingInformation]

\* The audit records among the add_memory calls of a call.
AuditRecords(add_calls) ==
    Cardinality({ i \in 1..Len(add_calls) : add_calls[i].source = "self-review" })

\* C20: every self-review invocation that has ended, started by the
\* /self-review endpoint or by a trigger phrase in a chat call, has called
\* the provider's generate_response exactly once and written exactly one
\* audit record to the memory.
SelfReviewGeneratesOnceAndRecordsOnce ==
    \A r \in Slots :
        (req[r].is_self_review /\ pc[r] \in {"returned", "failed"})
        => /\ req[r].generate_calls = 1
           /\ AuditRecords(req[r].add_calls) = 1

\* C20, amended: a self-review invocation calls generate_response at most
\* once: once when source files were gathered, not at all otherwise.  It
\* writes at most one audit record: one when generate_response returned, a
\* memory is configured and store_in_memory is true (as it is for every
\* chat-triggered invocation), none otherwise.  Both happen in the
\* invocation's worker step and nowhere else.
SelfReviewGeneratesAndRecordsAtMostOnce ==
    [][ \A r \in Slots :
          /\ (pc[r] = "audit_thread" /\ pc'[r] # "audit_thread")
             => /\ req[r].generate_calls = 0 /\ AuditRecords(req[r].add_calls) = 0
                /\ req'[r].generate_calls =
                      (IF req'[r].result.message =
                             "Aucun fichier source détecté pour l'auto-revue."
                       THEN 0 ELSE 1)
                /\ AuditRecords(req'[r].add_calls) =
                      (IF req'[r].result.kind = "ok" /\ memory /\ req[r].store_in_memory
                       THEN 1 ELSE 0)
                /\ req[r].endpoint = "chat" => req[r].store_in_memory
          /\ (req[r].is_self_review /\ req'[r].is_self_review /\ pc[r] # "audit_thread")
             => /\ req'[r].generate_calls = req[r].generate_calls
                /\ AuditRecords(req'[r].add_calls) = AuditRecords(req[r].add_calls)
      ]_vars

\* A /self-review call with store_in_memory false has returned its report
\* with a memory at hand: one provider call, no audit record.
ReviewReturnedWithoutRecord ==
    \E r \in Slots :
        /\ pc[r] = "returned"
        /\ req[r].endpoint = "self-review" /\ ~req[r].store_in_memory
        /\ memory
        /\ req[r].generate_calls = 1
        /\ req[r].add_calls = <<>>
        /\ req[r].response = <<"r">>

\* C21: whenever the provider call of a chat call has failed, for either
\* provider and whatever made generate_response raise (a transport or HTTP
\* error, a body that is not JSON, JSON without the expected text, an empty
\* answer), the call ends with status 502 and never with status 500.
ProviderFailureIsAlwaysBadGateway ==
    [][ \A r \in Slots :
          ( /\ pc[r] = "thread_done" /\ pc'[r] # pc[r]
            /\ req[r].endpoint = "chat"
            /\ req[r].generate_calls = 1
            /\ req[r].result.kind # "ok" )
          => /\ pc'[r] = "failed"
             /\ req'[r].status = 502
      ]_vars

\* C22: a chat call that ends in an HTTP error, the self-review path failing
\* on an empty report or on a provider error included, has put no entry in
\* the history ring and no record in the memory, and the step that raises
\* the error changes neither.
FailedChatLeavesNoRecord ==
    [][ \A r \in Slots :
          ( /\ pc[r] # "failed" /\ pc'[r] = "failed"
            /\ req'[r].endpoint = "chat" )
          => /\ req'[r].appended = 0
             /\ req'[r].stored = 0
             /\ recent_history' = recent_history
             /\ memory_count' = memory_count
      ]_vars

====
